---- MODULE Spec2Model ----
(***************************************************************************)
(* Model of the relocation engine of free-up-space-macos.py:               *)
(*   SpaceManager.move_apps_to_volume      (RelocateBatch)                 *)
(*   SpaceManager._move_app_robustly       (Relocate, the strategy chain)  *)
(*   SpaceManager._verify_app_copy         (VerifyCopy)                    *)
(*   SpaceManager._show_manual_move_instructions (manual escalation)       *)
(*   SpaceManager.find_backup_folders             (Discover)               *)
(*   SpaceManager.restore_apps_from_backup        (Restore)                *)
(*   SpaceManager.restore_all_backups_from_volume (RestoreAll)             *)
(*   SpaceManager._wait_for_app_unlock     (WaitUntilUnlocked)             *)
(*   SpaceManager._apps_are_identical      (AreIdentical)                  *)
(*   SpaceManager._is_symlink_or_alias     (IsAliasOrSymlink)              *)
(*   SpaceManager.get_applications, find_recently_modified_apps            *)
(*                                                                         *)
(* A tree (an .app bundle) is modelled by the set of files it holds.  The  *)
(* destination may in addition hold a nested bundle of the same name: this *)
(* is what shutil.move produces when the destination directory already     *)
(* exists (the source is moved INTO it).                                   *)
(***************************************************************************)
EXTENDS Integers, Sequences, FiniteSets, TLC

\* ------------------------------------------------------------------ bounds
MaxApps == 2          \* longest batch handed to move_apps_to_volume
MaxCalls == 2         \* calls of _move_app_robustly on one tree (SpecAgain)

\* ------------------------------------------------------------- file trees
\* Contents/Info.plist (small) and Contents/MacOS/<executable> (the bulk).
Files == {"plist", "exec"}

FileSize(f) == IF f = "plist" THEN 2 ELSE 198

RECURSIVE SumSizes(_)
SumSizes(S) ==
  IF S = {} THEN 0
  ELSE LET f == CHOOSE x \in S : TRUE IN FileSize(f) + SumSizes(S \ {f})

\* A path that does not exist.
Absent == [ex |-> FALSE, files |-> {}, nest |-> FALSE, nfiles |-> {}]

\* A bundle directory holding the files F and no nested bundle.
Bundle(F) == [ex |-> TRUE, files |-> F, nest |-> FALSE, nfiles |-> {}]

FullTree == Bundle(Files)

\* sum(f.stat().st_size for f in tree.rglob("*") if f.is_file())
TreeSize(t) == SumSizes(t.files) + (IF t.nest THEN SumSizes(t.nfiles) ELSE 0)

\* (tree / "Contents" / "Info.plist").exists()
HasManifest(t) == t.ex /\ "plist" \in t.files

Abs(n) == IF n < 0 THEN -n ELSE n

\* Variant of SizeDiffTooBig that also rejects a difference of exactly 1%.
SizeDiffTooBigAtBound(ssize, dsize) == Abs(ssize - dsize) * 100 >= ssize

\* More than 1% difference: size_diff > source_size * 0.01
SizeDiffTooBig(ssize, dsize) == Abs(ssize - dsize) * 100 > ssize

\* _verify_app_copy without its catch-all: destination exists, both have the
\* manifest, sizes within 1% of the source's size.
VerifyPure(s, d) ==
  IF ~d.ex THEN FALSE
  ELSE IF ~(HasManifest(s) /\ HasManifest(d)) THEN FALSE
  ELSE ~SizeDiffTooBig(TreeSize(s), TreeSize(d))

\* _verify_app_copy: any internal error (err) yields False.
VerifyCopy(s, d, err) == IF err THEN FALSE ELSE VerifyPure(s, d)

\* _check_app_integrity: manifest present and the executable it declares.
CheckAppIntegrity(t) == t.ex /\ "plist" \in t.files /\ "exec" \in t.files

\* ------------------------------------------------- filesystem primitives
\* What a removal that fails part-way can leave behind of tree t (the root
\* directory stays, with any part of the content).
Remnants(t) ==
  { [ex |-> TRUE, files |-> F, nest |-> n, nfiles |-> IF n THEN t.nfiles ELSE {}] :
      F \in SUBSET t.files, n \in {t.nest, FALSE} }

\* shutil.rmtree(path): removes everything or raises, leaving a remnant.
\* Result: <<tree afterwards, raised>>.
RmtreeOutcomes(t) ==
  IF ~t.ex THEN {<<Absent, TRUE>>}
  ELSE {<<Absent, FALSE>>} \cup { <<r, TRUE>> : r \in Remnants(t) }

\* What a recursive copy of s into the fresh directory leaves when it stops
\* with an error: the directory with some (possibly all) of the files.
PartialCopies(s) == { Bundle(F) : F \in SUBSET s.files }

\* One result of a strategy: source and destination afterwards, whether the
\* strategy returned True, and what happened (ev).
Out(s, d, ok, ev) == [s |-> s, d |-> d, ok |-> ok, ev |-> ev]

\* os.rename(src, real_dst) inside shutil.move, or its cross-device
\* substitute copytree + rmtree.  put[F] is the destination once the files F
\* of the source have arrived at real_dst.
MoveOutcomes(s, d, put) ==
  {Out(Absent, put[s.files], TRUE, "moved")}
  \cup {Out(s, d, FALSE, "move_failed")}
  \cup {Out(s, put[F], FALSE, "move_failed") : F \in SUBSET s.files}
  \cup {Out(r, put[s.files], FALSE, "move_failed") : r \in Remnants(s)}

\* Method 1, shutil.move(source, destination).  A missing source raises;
\* an existing destination directory receives the source INSIDE it, unless
\* that nested path exists already (shutil.Error).
DirectOutcomes(s, d) ==
  IF ~s.ex THEN {Out(s, d, FALSE, "move_failed")}
  ELSE IF d.ex
    THEN IF d.nest THEN {Out(s, d, FALSE, "move_failed")}
         ELSE MoveOutcomes(s, d,
                [F \in SUBSET Files |-> [d EXCEPT !.nest = TRUE, !.nfiles = F]])
    ELSE MoveOutcomes(s, d, [F \in SUBSET Files |-> Bundle(F)])

\* Variant of VerifyAndCommit that removes the source without consulting the
\* verification.
VerifyAndCommitUnchecked(s, c, verr) ==
  { Out(o[1], c, ~o[2], IF o[2] THEN "remove_failed" ELSE "committed") :
      o \in RmtreeOutcomes(s) }

\* Variant of VerifyAndCommit that leaves a rejected copy where it is.
VerifyAndCommitKeepsCopy(s, c, verr) ==
  IF VerifyCopy(s, c, verr)
    THEN { Out(o[1], c, ~o[2], IF o[2] THEN "remove_failed" ELSE "committed") :
             o \in RmtreeOutcomes(s) }
    ELSE { Out(s, c, FALSE, "verify_failed") }

\* The shared tail of methods 2-4 once the copy tool has finished without
\* error, leaving c at the destination: verify, then remove the source, or
\* remove the copy with ignore_errors=True (a removal error is swallowed and
\* its remnant left: "verify_failed_left") and raise.
VerifyAndCommit(s, c, verr) ==
  IF VerifyCopy(s, c, verr)
    THEN { Out(o[1], c, ~o[2], IF o[2] THEN "remove_failed" ELSE "committed") :
             o \in RmtreeOutcomes(s) }
    ELSE { Out(s, o[1], FALSE,
               IF o[2] THEN "verify_failed_left" ELSE "verify_failed") :
             o \in RmtreeOutcomes(c) }

\* Method 2, shutil.copytree(source, destination, symlinks=True). Raises at
\* once for a missing source (scandir) or an existing destination
\* (makedirs); an error part-way leaves the partial copy where it is.
CopyDeleteOutcomes(s, d, verr) ==
  IF ~s.ex \/ d.ex THEN {Out(s, d, FALSE, "copy_failed")}
  ELSE {Out(s, d, FALSE, "copy_failed")}
       \cup {Out(s, c, FALSE, "copy_failed") : c \in PartialCopies(s)}
       \cup VerifyAndCommit(s, Bundle(s.files), verr)

\* What rsync can leave at the destination when it exits non-zero or is
\* killed at the timeout: nothing new, or a directory in which some of the
\* source's files have arrived and some extraneous entries (--delete) are
\* gone; files present on both sides stay.
RsyncDebris(s, d) ==
  {d} \cup { [ex |-> TRUE, files |-> F, nest |-> n,
              nfiles |-> IF n THEN d.nfiles ELSE {}] :
               F \in { G \in SUBSET (s.files \cup d.files) :
                         (s.files \cap d.files) \subseteq G },
               n \in {d.nest, FALSE} }

\* What ditto can leave when it exits non-zero or is killed at the timeout:
\* nothing new, or the old content with some of the source's files added.
DittoDebris(s, d) ==
  {d} \cup { [ex |-> TRUE, files |-> F, nest |-> d.nest, nfiles |-> d.nfiles] :
               F \in { G \in SUBSET (s.files \cup d.files) : d.files \subseteq G } }

\* Variant of MirrorSyncOutcomes that removes the destination whenever
\* rsync fails.
MirrorSyncCleansUp(s, d, verr) ==
  IF ~s.ex THEN {Out(s, Absent, FALSE, "copy_failed")}
  ELSE {Out(s, Absent, FALSE, "copy_failed")}
       \cup VerifyAndCommit(s, Bundle(s.files), verr)

\* Method 3, rsync -av --delete source/ destination (timeout=300).  Exit 0
\* leaves an exact mirror of the source; a missing source is an rsync error
\* (with --delete skipped on the I/O error).
MirrorSyncOutcomes(s, d, verr) ==
  IF ~s.ex THEN {Out(s, d, FALSE, "copy_failed")}
  ELSE {Out(s, d2, FALSE, "copy_failed") : d2 \in RsyncDebris(s, d)}
       \cup VerifyAndCommit(s, Bundle(s.files), verr)

\* Method 4, ditto source destination (timeout=300).  Exit 0 leaves the
\* source's files merged into whatever the destination held.
AttrCopyOutcomes(s, d, verr) ==
  IF ~s.ex THEN {Out(s, d, FALSE, "copy_failed")}
  ELSE {Out(s, d2, FALSE, "copy_failed") : d2 \in DittoDebris(s, d)}
       \cup VerifyAndCommit(s,
              [ex |-> TRUE, files |-> d.files \cup s.files,
               nest |-> d.nest, nfiles |-> d.nfiles], verr)

\* ================================================== find_backup_folders
\* Names are sequences of character codes, compared the way Python compares
\* str: code point by code point, a proper prefix being the smaller.
MaxEntries == 3       \* entries directly under the volume

\* "AppBackup_"
BackupPrefix == <<65, 112, 112, 66, 97, 99, 107, 117, 112, 95>>

\* "AppBackup_20240101_120000"
NameNew ==
  <<65, 112, 112, 66, 97, 99, 107, 117, 112, 95, 50, 48, 50, 52, 48, 49, 48, 49, 95, 49, 50, 48, 48, 48, 48>>

\* "AppBackup_20231231_080000"
NameOld ==
  <<65, 112, 112, 66, 97, 99, 107, 117, 112, 95, 50, 48, 50, 51, 49, 50, 51, 49, 95, 48, 56, 48, 48, 48, 48>>

\* "AppBackup_20240101_093000"
NameMorning ==
  <<65, 112, 112, 66, 97, 99, 107, 117, 112, 95, 50, 48, 50, 52, 48, 49, 48, 49, 95, 48, 57, 51, 48, 48, 48>>

\* "AppBackup_old"
NameLoose ==
  <<65, 112, 112, 66, 97, 99, 107, 117, 112, 95, 111, 108, 100>>

\* "AppBackup"
NameBare ==
  <<65, 112, 112, 66, 97, 99, 107, 117, 112>>

\* "Backup_20240101_120000"
NameOther ==
  <<66, 97, 99, 107, 117, 112, 95, 50, 48, 50, 52, 48, 49, 48, 49, 95, 49, 50, 48, 48, 48, 48>>

\* "appbackup_20250101_000000"
NameLower ==
  <<97, 112, 112, 98, 97, 99, 107, 117, 112, 95, 50, 48, 50, 53, 48, 49, 48, 49, 95, 48, 48, 48, 48, 48, 48>>

\* Names an entry of the volume can have.
NamePool ==
  {NameNew, NameOld, NameMorning, NameLoose, NameBare, NameOther, NameLower}

\* str.startswith
StartsWith(s, p) == Len(s) >= Len(p) /\ SubSeq(s, 1, Len(p)) = p

\* a < b on str
RECURSIVE StrLess(_, _)
StrLess(a, b) ==
  IF b = <<>> THEN FALSE
  ELSE IF a = <<>> THEN TRUE
  ELSE IF Head(a) # Head(b) THEN Head(a) < Head(b)
  ELSE StrLess(Tail(a), Tail(b))

\* Insert folder x into the sequence q, sorted by name descending, behind
\* every element that does not sort after it (sorted() is stable).
RECURSIVE InsertDesc(_, _)
InsertDesc(x, q) ==
  IF q = <<>> THEN <<x>>
  ELSE IF StrLess(Head(q), x) THEN <<x>> \o q
  ELSE <<Head(q)>> \o InsertDesc(x, Tail(q))

\* sorted(backup_folders, key=lambda x: x.name, reverse=True)
RECURSIVE SortedDesc(_)
SortedDesc(q) ==
  IF q = <<>> THEN <<>>
  ELSE InsertDesc(q[Len(q)], SortedDesc(SubSeq(q, 1, Len(q) - 1)))

\* The loop over volume.iterdir(): the directories among the first k
\* entries whose name starts with "AppBackup_", in listing order.
RECURSIVE Collect(_, _)
Collect(listing, k) ==
  IF k = 0 THEN <<>>
  ELSE LET e == listing[k]
       IN  IF e.dir /\ StartsWith(e.name, BackupPrefix)
             THEN Append(Collect(listing, k - 1), e.name)
             ELSE Collect(listing, k - 1)

\* Variant of FindBackupFolders that returns the folders in listing order.
FindBackupFoldersUnsorted(listing, k) == Collect(listing, k)

\* find_backup_folders: k is the number of entries seen before iterdir() or
\* is_dir() raised (Len(listing) when nothing raised); the exception is
\* swallowed and what was collected is returned sorted.
FindBackupFolders(listing, k) == SortedDesc(Collect(listing, k))

\* ============================================ restore_apps_from_backup
MaxTrees == 2         \* *.app directories in one backup folder
MaxFolders == 2       \* entries on the volume in a restore-all run

\* What find_backup_folders is given in a restore-all run.
RestoreNames == {NameNew, NameOld, NameOther}

\* What the two stat calls and the two reads of _apps_are_identical find:
\* equal directory sizes and equal Info.plist bytes, different st_size,
\* different Info.plist bytes, or an exception.
Cmp == {"same", "size", "plist", "error"}

\* _apps_are_identical: any exception (a missing source among them) and a
\* missing destination yield False; then st_size of the two directories,
\* the presence of both Info.plist files, and their bytes.
AreIdentical(s, d, cmp) ==
  IF cmp = "error" \/ ~s.ex THEN FALSE
  ELSE IF ~d.ex THEN FALSE
  ELSE IF cmp = "size" THEN FALSE
  ELSE IF ~(HasManifest(s) /\ HasManifest(d)) THEN FALSE
  ELSE cmp = "same"

\* _remove_app_safely: rm -rf under timeout=60; True iff the exit code is 0.
\* A failure or the timeout leaves a remnant.  Result: <<tree, returned>>.
RemoveAppSafelyOutcomes(t) ==
  {<<Absent, TRUE>>} \cup { <<r, FALSE>> : r \in Remnants(t) }


\* ------------------------------------------------------------------ state
VARIABLES
  apps,         \* the batch `apps`: a sequence of tree ids
  protected,    \* ids of the trees whose name is in self.protected_apps
  idx,          \* position of `for app in apps`
  pc,           \* where the batch / the strategy chain stands
  src,          \* the tree at app.path of the current iteration
  dst,          \* the tree at destination = backup_folder / app.path.name
  gone,         \* trees of finished iterations whose source no longer exists
  placed,       \* trees of finished iterations whose destination exists
  failed_apps,  \* the list failed_apps
  returned,     \* move_apps_to_volume has returned
  success,      \* first component of its return value
  trace,        \* [m, ev] of each strategy attempted in the current call
  atCall,       \* source and destination when _move_app_robustly was entered
  calls,        \* calls of _move_app_robustly on the current tree
  commits,      \* [tree id -> number of calls that returned True]
  probed,       \* trees queried by lsof / ls -lO
  stripped,     \* trees whose source had xattr -cr, chmod, chown applied
  normalized,   \* trees whose destination got the final chmod
  prep,         \* results of the probes and preparations of the current tree
  manual,       \* [tree id -> "none", "shown", or the operator's answer]
  ackDst,       \* [tree id -> destination existed when the operator answered]
  asked,        \* trees after which "Continue?" was asked
  volume,          \* entries directly under the volume: sequence of [name, dir]
  seen,            \* entries find_backup_folders saw before its loop ended
  backup_folders,  \* what find_backup_folders returned
  fi,              \* position of `for backup_folder in backup_folders`
  success_count,   \* success_count of restore_all_backups_from_volume
  invoked,         \* names restore_apps_from_backup was called with, in order
  allResult,       \* return value of restore_all_backups_from_volume
  rpc,             \* where the restore stands
  apps_to_restore, \* the *.app directories of the current backup folder
  bk,              \* [tree -> tree in the backup folder] when the call began
  ap,              \* [tree -> tree in /Applications] when the call began
  rsrc,            \* app_path of the tree being restored
  rdst,            \* destination of the tree being restored
  rtrace,          \* what was tried to bring the current tree back
  installed,       \* trees of finished iterations whose destination exists
  valid_apps,      \* the list valid_apps
  apps_to_process, \* the list apps_to_process
  ri,              \* position of the current loop of restore_apps_from_backup
  log,             \* [tree -> what was done for it in the current call]
  ret,             \* return value of the current restore_apps_from_backup
  report,          \* the summary it printed
  args,            \* inputs of the helper function being evaluated
  result,          \* <<>> until it returns, then <<value returned>>
  attempt,         \* `attempt` of the loop of _wait_for_app_unlock
  polls            \* results of the lsof runs made so far

relocVars == <<apps, protected, idx, pc, src, dst, gone, placed, failed_apps,
               returned, success, trace, atCall, calls, commits, probed,
               stripped, normalized, prep, manual, ackDst, asked>>

restoreVars == <<volume, seen, backup_folders, fi, success_count, invoked,
                 allResult, rpc, apps_to_restore, bk, ap, rsrc, rdst,
                 rtrace, installed, valid_apps, apps_to_process, ri, log,
                 ret, report>>

utilVars == <<args, result, attempt, polls>>

vars == <<relocVars, restoreVars, utilVars>>

\* No helper function is being evaluated on its own.
UtilIdle ==
  /\ args = <<>>
  /\ result = <<>>
  /\ attempt = 0
  /\ polls = <<>>

RTrees == 1..MaxTrees

\* No restore_apps_from_backup call is in progress.
NoRestoreCall ==
  /\ apps_to_restore = <<>>
  /\ bk = [t \in RTrees |-> Absent]
  /\ ap = [t \in RTrees |-> Absent]
  /\ rsrc = Absent
  /\ rdst = Absent
  /\ rtrace = <<>>
  /\ installed = {}
  /\ valid_apps = <<>>
  /\ apps_to_process = <<>>
  /\ ri = 1
  /\ log = [t \in RTrees |-> {}]
  /\ ret = FALSE
  /\ report = "none"

\* No restore has been started.
RestoreIdle ==
  /\ volume = <<>>
  /\ seen = 0
  /\ backup_folders = <<>>
  /\ fi = 1
  /\ success_count = 0
  /\ invoked = <<>>
  /\ allResult = FALSE
  /\ rpc = "idle"
  /\ NoRestoreCall

Trees == 1..MaxApps

\* The record of a call is dropped once its outcome has been recorded.
NoCall == [s |-> Absent, d |-> Absent]

Methods == <<"direct", "copydelete", "rsync", "ditto">>

\* The batch has more trees and the loop stands at one of them.
InLoop == idx <= Len(apps)

cur == apps[idx]

\* Sources the batch can be handed (get_applications takes every *.app
\* directory) and destinations a new or a reused backup folder can hold.
InitSrc == {FullTree, Bundle(Files \ {"plist"})}
InitDst == {Absent, Bundle({"exec"}), FullTree}

Init ==
  /\ \E n \in 0..MaxApps : apps = [i \in 1..n |-> i]
  /\ protected \in SUBSET Trees
  /\ \A t \in protected : t <= Len(apps)
  /\ idx = 1
  /\ pc = "loop"
  /\ src = Absent
  /\ dst = Absent
  /\ gone = {}
  /\ placed = {}
  /\ failed_apps = <<>>
  /\ returned = FALSE
  /\ success = FALSE
  /\ trace = <<>>
  /\ atCall = NoCall
  /\ calls = 0
  /\ commits = [t \in Trees |-> 0]
  /\ probed = {}
  /\ stripped = {}
  /\ normalized = {}
  /\ prep = <<>>
  /\ manual = [t \in Trees |-> "none"]
  /\ ackDst = [t \in Trees |-> FALSE]
  /\ asked = {}
  /\ RestoreIdle
  /\ UtilIdle

\* ------------------------------------------------- move_apps_to_volume
fsVars == <<src, dst, gone, placed>>
batchVars == <<apps, protected>>
callVars == <<trace, atCall, calls, commits>>
prepVars == <<probed, stripped, normalized>>
promptVars == <<manual, ackDst, asked>>
retVars == <<failed_apps, returned, success>>

\* The iteration for the current tree is over: what it leaves at the two
\* paths is kept by existence only, and the loop has no current paths until
\* the next iteration looks at its own.
EndIteration ==
  /\ gone' = IF src.ex THEN gone ELSE gone \cup {cur}
  /\ placed' = IF dst.ex THEN placed \cup {cur} ELSE placed
  /\ src' = Absent
  /\ dst' = Absent

\* Variant of SkipProtected that queries lsof / ls -lO before giving the
\* tree up.
SkipProtectedAfterProbe ==
  /\ pc = "loop" /\ InLoop /\ cur \in protected
  /\ probed' = probed \cup {cur}
  /\ failed_apps' = Append(failed_apps, cur)
  /\ idx' = idx + 1
  /\ UNCHANGED <<pc, returned, success, fsVars, batchVars, prep, callVars,
                 stripped, normalized, promptVars>>
  /\ UNCHANGED <<restoreVars, utilVars>>

\* if self.is_app_protected(app.path): failed_apps.append(app); continue
SkipProtected ==
  /\ pc = "loop" /\ InLoop /\ cur \in protected
  /\ failed_apps' = Append(failed_apps, cur)
  /\ idx' = idx + 1
  /\ UNCHANGED <<pc, returned, success, fsVars, batchVars, prep, callVars, prepVars,
                 promptVars>>
  /\ UNCHANGED <<restoreVars, utilVars>>

\* destination = backup_folder / app.path.name; _check_app_in_use and
\* _check_system_protection, whose results (True, or False also for every
\* failure of lsof / ls) only select a warning.  From here on the model follows
\* what is at app.path and at destination.
Probe ==
  /\ pc = "loop" /\ InLoop /\ cur \notin protected
  /\ src' \in InitSrc
  /\ dst' \in InitDst
  /\ probed' = probed \cup {cur}
  /\ \E in_use, restricted \in BOOLEAN : prep' = <<in_use, restricted>>
  /\ pc' = "strip"
  /\ UNCHANGED <<idx, gone, placed, stripped, normalized, batchVars, callVars,
                 promptVars, retVars>>
  /\ UNCHANGED <<restoreVars, utilVars>>

\* Variant of Strip that gives the tree up when xattr or chmod fails.
StripFailureIsFatal ==
  /\ pc = "strip"
  /\ stripped' = stripped \cup {cur}
  /\ \E xattr_ok, chmod_ok \in BOOLEAN :
       /\ prep' = prep \o <<xattr_ok, chmod_ok>>
       /\ IF xattr_ok /\ chmod_ok
            THEN /\ pc' = "direct"
                 /\ atCall' = [s |-> src, d |-> dst]
                 /\ calls' = 1
            ELSE /\ pc' = "failed"
                 /\ UNCHANGED <<atCall, calls>>
  /\ trace' = <<>>
  /\ UNCHANGED <<idx, probed, normalized, commits, fsVars, batchVars,
                 promptVars, retVars>>
  /\ UNCHANGED <<restoreVars, utilVars>>

\* _remove_extended_attributes, _fix_permissions_recursively, os.chmod and
\* chown on the source (a False result prints a warning, every exception is
\* swallowed), then the call self._move_app_robustly(app.path, destination),
\* which consults none of these results.
Strip ==
  /\ pc = "strip"
  /\ stripped' = stripped \cup {cur}
  /\ \E xattr_ok, chmod_ok \in BOOLEAN : prep' = prep \o <<xattr_ok, chmod_ok>>
  /\ pc' = "direct"
  /\ trace' = <<>>
  /\ atCall' = [s |-> src, d |-> dst]
  /\ calls' = 1
  /\ UNCHANGED <<idx, probed, normalized, commits, fsVars, batchVars,
                 promptVars, retVars>>
  /\ UNCHANGED <<restoreVars, utilVars>>

\* ---------------------------------------------------- _move_app_robustly
\* Variant of OnFailure with the third and fourth blocks exchanged.
OnFailureSwapped(m) ==
  CASE m = "direct" -> "copydelete"
    [] m = "copydelete" -> "ditto"
    [] m = "ditto" -> "rsync"
    [] m = "rsync" -> "failed"

\* Where control goes when method m raises: the next `try` block, and after
\* the last one `raise Exception("All move methods failed")`.
OnFailure(m) ==
  CASE m = "direct" -> "copydelete"
    [] m = "copydelete" -> "rsync"
    [] m = "rsync" -> "ditto"
    [] m = "ditto" -> "failed"

\* One `try` block of _move_app_robustly with the given possible results:
\* `return True` on success, otherwise fall into the next block.
Attempt(m, outcomes) ==
  /\ pc = m
  /\ \E o \in outcomes :
       /\ src' = o.s
       /\ dst' = o.d
       /\ trace' = Append(trace, [m |-> m, ev |-> o.ev])
       /\ pc' = IF o.ok THEN "moved" ELSE OnFailure(m)
       /\ commits' = [commits EXCEPT ![cur] = @ + (IF o.ok THEN 1 ELSE 0)]
  /\ prep' = <<>>
  /\ UNCHANGED <<idx, gone, placed, atCall, calls, batchVars, prepVars,
                 promptVars, retVars>>
  /\ UNCHANGED <<restoreVars, utilVars>>

Direct == Attempt("direct", DirectOutcomes(src, dst))

CopyDelete ==
  \E verr \in BOOLEAN : Attempt("copydelete", CopyDeleteOutcomes(src, dst, verr))

MirrorSync ==
  \E verr \in BOOLEAN : Attempt("rsync", MirrorSyncOutcomes(src, dst, verr))

AttrCopy ==
  \E verr \in BOOLEAN : Attempt("ditto", AttrCopyOutcomes(src, dst, verr))

\* ------------------------------------- move_apps_to_volume, after the call
\* if move_success: os.chmod(destination, ...) (failure only logged), next app.
MoveSucceeded ==
  /\ pc = "moved"
  /\ normalized' = normalized \cup {cur}
  /\ idx' = idx + 1
  /\ pc' = "loop"
  /\ trace' = <<>>
  /\ atCall' = NoCall
  /\ EndIteration
  /\ UNCHANGED <<probed, stripped, calls, commits, batchVars, prep, promptVars,
                 retVars>>
  /\ UNCHANGED <<restoreVars, utilVars>>

\* Variant of MoveFailed that starts the chain over instead of giving up.
MoveFailedRetries ==
  /\ pc = "failed"
  /\ pc' = "direct"
  /\ trace' = <<>>
  /\ UNCHANGED <<idx, atCall, calls, commits, fsVars, batchVars, prep, prepVars,
                 promptVars, retVars>>
  /\ UNCHANGED <<restoreVars, utilVars>>

\* Variant of MoveFailed that records the failure and goes straight to the
\* "Continue?" question.
MoveFailedNoPrompt ==
  /\ pc = "failed"
  /\ failed_apps' = Append(failed_apps, cur)
  /\ pc' = "confirm"
  /\ trace' = <<>>
  /\ atCall' = NoCall
  /\ UNCHANGED <<idx, returned, success, manual, ackDst, asked, calls, commits,
                 fsVars, batchVars, prep, prepVars>>
  /\ UNCHANGED <<restoreVars, utilVars>>

\* else: failed_apps.append(app); self._show_manual_move_instructions(...)
\* prints the request and blocks in input().
MoveFailed ==
  /\ pc = "failed"
  /\ failed_apps' = Append(failed_apps, cur)
  /\ manual' = [manual EXCEPT ![cur] = "shown"]
  /\ pc' = "manual"
  /\ trace' = <<>>
  /\ atCall' = NoCall
  /\ UNCHANGED <<idx, returned, success, ackDst, asked, calls, commits,
                 fsVars, batchVars, prep, prepVars>>
  /\ UNCHANGED <<restoreVars, utilVars>>

\* Variant of OperatorAnswers that goes on with the next app without asking
\* whether to continue.
OperatorAnswersNoConfirm ==
  /\ pc = "manual"
  /\ \E resp \in {"enter", "skip", "eof"} :
       manual' = [manual EXCEPT ![cur] = resp]
  /\ ackDst' = [ackDst EXCEPT ![cur] = dst.ex]
  /\ idx' = idx + 1
  /\ pc' = "loop"
  /\ EndIteration
  /\ UNCHANGED <<asked, batchVars, prep, callVars, prepVars, retVars>>
  /\ UNCHANGED <<restoreVars, utilVars>>

\* The operator's answer to input(): Enter, "skip", or EOF / Ctrl-C; while
\* the engine waits the operator may have moved the tree by hand.
\* _show_manual_move_instructions returns None in every case.
OperatorAnswers ==
  /\ pc = "manual"
  /\ \E resp \in {"enter", "skip", "eof"}, moves \in BOOLEAN :
       /\ manual' = [manual EXCEPT ![cur] = resp]
       /\ IF moves /\ src.ex
            THEN src' = Absent /\ dst' = Bundle(src.files)
            ELSE UNCHANGED <<src, dst>>
       /\ ackDst' = [ackDst EXCEPT ![cur] = dst'.ex]
  /\ pc' = "confirm"
  /\ UNCHANGED <<idx, gone, placed, asked, batchVars, prep, callVars, prepVars,
                 retVars>>
  /\ UNCHANGED <<restoreVars, utilVars>>

\* Variant of ConfirmContinue that notes the refusal but goes on with the
\* loop.
ConfirmContinueKeepsGoing ==
  /\ pc = "confirm"
  /\ asked' = asked \cup {cur}
  /\ \E ans \in BOOLEAN :
       /\ returned' = ~ans
       /\ success' = FALSE
  /\ idx' = idx + 1
  /\ pc' = "loop"
  /\ EndIteration
  /\ UNCHANGED <<failed_apps, manual, ackDst, batchVars, prep, callVars, prepVars>>
  /\ UNCHANGED <<restoreVars, utilVars>>

\* if not Confirm.ask("Continue?", default=True): return False, failed_apps
ConfirmContinue ==
  /\ pc = "confirm"
  /\ asked' = asked \cup {cur}
  /\ \E ans \in BOOLEAN :
       IF ans
         THEN /\ idx' = idx + 1
              /\ pc' = "loop"
              /\ EndIteration
              /\ UNCHANGED <<returned, success>>
         ELSE /\ returned' = TRUE
              /\ success' = FALSE
              /\ pc' = "done"
              /\ UNCHANGED <<idx, fsVars>>
  /\ UNCHANGED <<failed_apps, manual, ackDst, batchVars, prep, callVars, prepVars>>
  /\ UNCHANGED <<restoreVars, utilVars>>

\* return len(failed_apps) == 0, failed_apps
LoopEnd ==
  /\ pc = "loop" /\ ~InLoop
  /\ returned' = TRUE
  /\ success' = (Len(failed_apps) = 0)
  /\ pc' = "done"
  /\ UNCHANGED <<idx, failed_apps, fsVars, batchVars, prep, callVars, prepVars,
                 promptVars>>
  /\ UNCHANGED <<restoreVars, utilVars>>

Next ==
  \/ SkipProtected
  \/ Probe
  \/ Strip
  \/ Direct
  \/ CopyDelete
  \/ MirrorSync
  \/ AttrCopy
  \/ MoveSucceeded
  \/ MoveFailed
  \/ OperatorAnswers
  \/ ConfirmContinue
  \/ LoopEnd

Spec == Init /\ [][Next]_vars

\* ------------------------------------------ Relocate called once more
\* A caller invoking _move_app_robustly again on the same tree after it has
\* returned (a re-run of the tool on the same backup folder).
Recall ==
  /\ pc \in {"moved", "failed"}
  /\ calls < MaxCalls
  /\ calls' = calls + 1
  /\ trace' = <<>>
  /\ atCall' = [s |-> src, d |-> dst]
  /\ pc' = "direct"
  /\ UNCHANGED <<idx, commits, fsVars, batchVars, prep, prepVars, promptVars, retVars>>
  /\ UNCHANGED <<restoreVars, utilVars>>

InitAgain ==
  /\ apps = <<1>>
  /\ protected = {}
  /\ src \in InitSrc
  /\ dst = Absent
  /\ gone = {}
  /\ placed = {}
  /\ idx = 1
  /\ pc = "direct"
  /\ failed_apps = <<>>
  /\ returned = FALSE
  /\ success = FALSE
  /\ trace = <<>>
  /\ atCall = [s |-> src, d |-> dst]
  /\ calls = 1
  /\ commits = [t \in Trees |-> 0]
  /\ probed = {}
  /\ stripped = {}
  /\ normalized = {}
  /\ prep = <<>>
  /\ manual = [t \in Trees |-> "none"]
  /\ ackDst = [t \in Trees |-> FALSE]
  /\ asked = {}
  /\ RestoreIdle
  /\ UtilIdle

NextAgain == Direct \/ CopyDelete \/ MirrorSync \/ AttrCopy \/ Recall

SpecAgain == InitAgain /\ [][NextAgain]_vars

\* ================================================= find_backup_folders
\* Listings of a volume: up to n entries with pairwise different names.
Listings(names, dirs, n) ==
  { q \in UNION { [1..k -> [name : names, dir : dirs]] : k \in 0..n } :
      \A i, j \in 1..Len(q) : i # j => q[i].name # q[j].name }

\* The relocation half of the state while a restore runs: no batch.
RelocateIdle ==
  /\ apps = <<>>
  /\ protected = {}
  /\ idx = 1
  /\ pc = "idle"
  /\ src = Absent
  /\ dst = Absent
  /\ gone = {}
  /\ placed = {}
  /\ failed_apps = <<>>
  /\ returned = FALSE
  /\ success = FALSE
  /\ trace = <<>>
  /\ atCall = NoCall
  /\ calls = 0
  /\ commits = [t \in Trees |-> 0]
  /\ probed = {}
  /\ stripped = {}
  /\ normalized = {}
  /\ prep = <<>>
  /\ manual = [t \in Trees |-> "none"]
  /\ ackDst = [t \in Trees |-> FALSE]
  /\ asked = {}

allVars == <<fi, success_count, invoked, allResult>>
restoreCallVars == <<apps_to_restore, bk, ap, rsrc, rdst, rtrace, installed,
                    valid_apps, apps_to_process, ri, log, ret, report>>

\* A call of find_backup_folders(volume) on its own.
Discover ==
  /\ rpc = "discover"
  /\ \E k \in 0..Len(volume) :
       /\ seen' = k
       /\ backup_folders' = FindBackupFolders(volume, k)
  /\ rpc' = "listed"
  /\ UNCHANGED <<volume, allVars, restoreCallVars, relocVars, utilVars>>

InitDiscover ==
  /\ volume \in Listings(NamePool, BOOLEAN, MaxEntries)
  /\ seen = 0
  /\ backup_folders = <<>>
  /\ fi = 1
  /\ success_count = 0
  /\ invoked = <<>>
  /\ allResult = FALSE
  /\ rpc = "discover"
  /\ NoRestoreCall
  /\ RelocateIdle
  /\ UtilIdle

NextDiscover == Discover

SpecDiscover == InitDiscover /\ [][NextDiscover]_vars

\* ===================================== restore_all_backups_from_volume
\* backup_folders = self.find_backup_folders(volume);
\* if not backup_folders: return False
FindAll ==
  /\ rpc = "start"
  /\ \E k \in 0..Len(volume) :
       /\ seen' = k
       /\ backup_folders' = FindBackupFolders(volume, k)
  /\ IF backup_folders' = <<>>
       THEN rpc' = "allDone" /\ allResult' = FALSE
       ELSE rpc' = "confirmAll" /\ UNCHANGED allResult
  /\ UNCHANGED <<volume, fi, success_count, invoked, restoreCallVars, relocVars, utilVars>>

\* if not Confirm.ask("Restore all ... backup folders?"): return False
ConfirmAll ==
  /\ rpc = "confirmAll"
  /\ \E ans \in BOOLEAN :
       IF ans THEN rpc' = "call" /\ UNCHANGED allResult
              ELSE rpc' = "allDone" /\ allResult' = FALSE
  /\ UNCHANGED <<volume, seen, backup_folders, fi, success_count, invoked,
                 restoreCallVars, relocVars, utilVars>>

\* Trees a backup folder can hold (complete, manifest missing, executable
\* missing) and what /Applications can hold under the same name.
InitBackup == {FullTree, Bundle({"exec"}), Bundle({"plist"})}
InitPrimary == {Absent, FullTree}

\* Variant of ValidApps that lets every listed tree through.
ValidAppsUnfiltered(listed, b) == listed

\* valid_apps: the listed trees that pass _check_app_integrity, in order.
ValidApps(listed, b) ==
  SelectSeq(listed, LAMBDA t : CheckAppIntegrity(b[t]))

\* The call self.restore_apps_from_backup(backup_folder) up to the first
\* question: the folder exists, its *.app directories are listed and
\* filtered by _check_app_integrity; no application or no valid one is
\* `return False`.
RestoreEnter ==
  /\ rpc = "call" /\ fi <= Len(backup_folders)
  /\ invoked' = Append(invoked, backup_folders[fi])
  /\ \E n \in 0..MaxTrees :
       /\ apps_to_restore' = [i \in 1..n |-> i]
       /\ bk' \in [RTrees -> InitBackup \cup {Absent}]
       /\ ap' \in [RTrees -> InitPrimary]
       /\ \A t \in RTrees :
            IF t <= n THEN bk'[t] # Absent
                      ELSE bk'[t] = Absent /\ ap'[t] = Absent
  /\ valid_apps' = ValidApps(apps_to_restore', bk')
  /\ IF valid_apps' = <<>>
       THEN rpc' = "ret" /\ ret' = FALSE /\ report' = "nothing"
       ELSE rpc' = "confirm" /\ UNCHANGED <<ret, report>>
  /\ UNCHANGED <<volume, seen, backup_folders, fi, success_count,
                 allResult, rsrc, rdst, rtrace, installed, apps_to_process, ri,
                 log, relocVars, utilVars>>

\* if not backup_folder.exists(): the search for recently modified
\* applications and the offer to fix their permissions; no tree of a backup
\* is touched and the result is that of fix_permissions_for_apps, or False.
RestoreMissing ==
  /\ rpc = "call" /\ fi <= Len(backup_folders)
  /\ invoked' = Append(invoked, backup_folders[fi])
  /\ rpc' = "ret"
  /\ ret' \in BOOLEAN
  /\ report' = "fallback"
  /\ UNCHANGED <<volume, seen, backup_folders, fi, success_count,
                 allResult, apps_to_restore, bk, ap, rsrc, rdst,
                 rtrace, installed, valid_apps, apps_to_process, ri, log, relocVars, utilVars>>

\* if not Confirm.ask("Do you want to restore these applications?"):
\*     return False
ConfirmRestore ==
  /\ rpc = "confirm"
  /\ \E ans \in BOOLEAN :
       IF ans THEN rpc' = "pre" /\ UNCHANGED <<ret, report>>
              ELSE rpc' = "ret" /\ ret' = FALSE /\ report' = "cancelled"
  /\ UNCHANGED <<volume, seen, backup_folders, allVars, apps_to_restore, bk,
                 ap, rsrc, rdst, rtrace, installed, valid_apps, apps_to_process, ri,
                 log, relocVars, utilVars>>

Note(t, evs) == [log EXCEPT ![t] = @ \cup evs]

\* Variant of PreProcess that puts the overwrite question for an identical
\* tree too.
PreProcessAsksAnyway ==
  /\ rpc = "pre" /\ ri <= Len(valid_apps)
  /\ LET t == valid_apps[ri] IN
       \E cmp \in Cmp, ans \in BOOLEAN :
         IF ~bk[t].ex
           THEN log' = Note(t, {"missing"}) /\ UNCHANGED apps_to_process
         ELSE IF ~ap[t].ex
           THEN apps_to_process' = Append(apps_to_process, t) /\ UNCHANGED log
         ELSE /\ log' = Note(t, (IF AreIdentical(bk[t], ap[t], cmp)
                                   THEN {"identical"} ELSE {})
                                \cup {"ow_asked"}
                                \cup (IF ans THEN {"ow_yes"} ELSE {}))
              /\ apps_to_process' =
                   IF ans THEN Append(apps_to_process, t) ELSE apps_to_process
  /\ ri' = ri + 1
  /\ UNCHANGED <<volume, seen, backup_folders, allVars, rpc, apps_to_restore,
                 bk, ap, rsrc, rdst, rtrace, installed, valid_apps, ret,
                 report, relocVars, utilVars>>

\* Variant of PreProcess that queues a tree whose destination exists without
\* comparing or asking.
PreProcessNoQuestions ==
  /\ rpc = "pre" /\ ri <= Len(valid_apps)
  /\ apps_to_process' = Append(apps_to_process, valid_apps[ri])
  /\ ri' = ri + 1
  /\ UNCHANGED <<volume, seen, backup_folders, allVars, rpc, apps_to_restore,
                 bk, ap, rsrc, rdst, rtrace, installed, valid_apps, log, ret, report,
                 relocVars, utilVars>>

\* One pass of `for app_path in valid_apps` before the progress bar: skip a
\* tree that is gone from the backup, skip one that is identical to what is
\* installed, ask before overwriting one that differs, queue the rest.
PreProcess ==
  /\ rpc = "pre" /\ ri <= Len(valid_apps)
  /\ LET t == valid_apps[ri] IN
       \E cmp \in Cmp, ans \in BOOLEAN :
         IF ~bk[t].ex
           THEN log' = Note(t, {"missing"}) /\ UNCHANGED apps_to_process
         ELSE IF ~ap[t].ex
           THEN apps_to_process' = Append(apps_to_process, t) /\ UNCHANGED log
         ELSE IF AreIdentical(bk[t], ap[t], cmp)
           THEN log' = Note(t, {"identical"}) /\ UNCHANGED apps_to_process
         ELSE IF ans
           THEN /\ log' = Note(t, {"ow_asked", "ow_yes"})
                /\ apps_to_process' = Append(apps_to_process, t)
           ELSE /\ log' = Note(t, {"ow_asked"})
                /\ UNCHANGED apps_to_process
  /\ ri' = ri + 1
  /\ UNCHANGED <<volume, seen, backup_folders, allVars, rpc, apps_to_restore,
                 bk, ap, rsrc, rdst, rtrace, installed, valid_apps, ret, report,
                 relocVars, utilVars>>

\* if not apps_to_process: return True; otherwise the second loop starts.
PreDone ==
  /\ rpc = "pre" /\ ri > Len(valid_apps)
  /\ IF apps_to_process = <<>>
       THEN rpc' = "ret" /\ ret' = TRUE /\ report' = "nothing_to_do"
            /\ UNCHANGED ri
       ELSE rpc' = "proc" /\ ri' = 1 /\ UNCHANGED <<ret, report>>
  /\ UNCHANGED <<volume, seen, backup_folders, allVars, apps_to_restore, bk,
                 ap, rsrc, rdst, rtrace, installed, valid_apps, apps_to_process, log,
                 relocVars, utilVars>>

\* The loop `for app_path in apps_to_process` stands at a tree.
InProc == rpc = "proc" /\ ri <= Len(apps_to_process)

rcur == apps_to_process[ri]

procFrame == <<volume, seen, backup_folders, allVars, apps_to_restore, bk, ap,
               valid_apps, apps_to_process, relocVars, utilVars>>

\* The iteration for the current tree is over with d at its destination:
\* of a finished tree only the existence of the destination is kept, which
\* is what the count after the loop looks at.
EndTree(d) ==
  /\ installed' = IF d.ex THEN installed \cup {rcur} ELSE installed
  /\ rsrc' = Absent
  /\ rdst' = Absent
  /\ rtrace' = <<>>
  /\ ri' = ri + 1
  /\ rpc' = "proc"

\* destination.exists() raises inside the try of the second loop (stat
\* fails with something other than "no such file"): PermissionError is
\* `return False`, any other error is `continue`.
ProcessRaises ==
  /\ InProc
  /\ \E e \in {"PermissionError", "OSError"} :
       /\ log' = Note(rcur, {e})
       /\ IF e = "PermissionError"
            THEN /\ rpc' = "ret" /\ ret' = FALSE /\ report' = "aborted"
                 /\ UNCHANGED <<ri, rsrc, rdst, rtrace, installed>>
            ELSE EndTree(ap[rcur]) /\ UNCHANGED <<ret, report>>
  /\ UNCHANGED procFrame

\* if destination.exists(): if not self._remove_app_safely(destination):
\*     continue
\* From here on the model follows what is at app_path and at destination.
RemoveExisting ==
  /\ InProc
  /\ IF ap[rcur].ex
       THEN \E o \in RemoveAppSafelyOutcomes(ap[rcur]) :
              IF o[2]
                THEN /\ log' = Note(rcur, {"rm"})
                     /\ rsrc' = bk[rcur] /\ rdst' = o[1]
                     /\ rpc' = "move" /\ UNCHANGED <<ri, rtrace, installed>>
                ELSE /\ log' = Note(rcur, {"rm", "rm_failed"})
                     /\ EndTree(o[1])
       ELSE /\ rsrc' = bk[rcur] /\ rdst' = ap[rcur]
            /\ rpc' = "move" /\ UNCHANGED <<log, ri, rtrace, installed>>
  /\ UNCHANGED <<ret, report, procFrame>>

\* try: shutil.move(str(app_path), str(destination)); move_success = True
\* except Exception: print the request to copy the tree by hand.
MoveBack ==
  /\ rpc = "move"
  /\ rtrace' = <<"direct">>
  /\ \E o \in DirectOutcomes(rsrc, rdst) :
       /\ rsrc' = o.s
       /\ rdst' = o.d
       /\ IF o.ok
            THEN log' = Note(rcur, {"brought"}) /\ rpc' = "finish"
            ELSE log' = Note(rcur, {"manual_asked"}) /\ rpc' = "manualq"
  /\ UNCHANGED <<ri, installed, ret, report, procFrame>>

\* Confirm.ask("Have you manually copied ... to /Applications?"): while the
\* question waits the operator may have copied the tree.  No: continue.
\* Yes: continue if the destination does not exist, else move_success = True.
ManualCopyAnswer ==
  /\ rpc = "manualq"
  /\ \E ans \in BOOLEAN, copies \in BOOLEAN :
       LET d == IF copies /\ rsrc.ex THEN Bundle(rsrc.files) ELSE rdst
       IN  IF ans /\ d.ex
             THEN /\ log' = Note(rcur, {"manual_yes", "brought"})
                  /\ rdst' = d
                  /\ rpc' = "finish"
                  /\ UNCHANGED <<rsrc, rtrace, ri, installed>>
             ELSE /\ log' = Note(rcur, IF ans THEN {"manual_yes"} ELSE {})
                  /\ EndTree(d)
  /\ UNCHANGED <<ret, report, procFrame>>

\* os.chmod(destination) (failure only printed), "Restored", and if the
\* destination exists the offer to remove the backup copy with
\* shutil.rmtree(app_path), whose failure is only printed.
Finish ==
  /\ rpc = "finish"
  /\ \E ans \in BOOLEAN :
       IF rdst.ex /\ ans
         THEN log' = Note(rcur, {"bk_rm"})
         ELSE UNCHANGED log
  /\ EndTree(rdst)
  /\ UNCHANGED <<ret, report, procFrame>>

\* restored_count: the trees of apps_to_process whose destination exists.
RestoredCount ==
  Cardinality({ i \in 1..Len(apps_to_process) : apps_to_process[i] \in installed })

\* After the loop: restored_count == 0 is `return False`; fewer than
\* len(apps_to_process) or all of them is `return True`.
CountRestored ==
  /\ rpc = "proc" /\ ri > Len(apps_to_process)
  /\ report' = IF RestoredCount = 0 THEN "none"
               ELSE IF RestoredCount < Len(apps_to_process) THEN "partial"
               ELSE "all"
  /\ ret' = (RestoredCount > 0)
  /\ rpc' = "ret"
  /\ UNCHANGED <<volume, seen, backup_folders, allVars, apps_to_restore, bk,
                 ap, rsrc, rdst, rtrace, installed, valid_apps, apps_to_process, ri,
                 log, relocVars, utilVars>>

\* Every valid tree of the backup is now installed: brought over by this
\* call or found identical to what was installed.
FullyRestored ==
  /\ valid_apps # <<>>
  /\ \A i \in 1..Len(valid_apps) :
       log[valid_apps[i]] \cap {"brought", "identical"} # {}

\* Variant of ReturnToAll that ends the loop over the backups at the first
\* call that returns False.
ReturnToAllStopsOnFailure ==
  /\ rpc = "ret"
  /\ success_count' = success_count + (IF ret THEN 1 ELSE 0)
  /\ fi' = IF ret THEN fi + 1 ELSE Len(backup_folders) + 1
  /\ rpc' = "call"
  /\ apps_to_restore' = <<>>
  /\ bk' = [t \in RTrees |-> Absent]
  /\ ap' = [t \in RTrees |-> Absent]
  /\ installed' = {}
  /\ valid_apps' = <<>>
  /\ apps_to_process' = <<>>
  /\ ri' = 1
  /\ log' = [t \in RTrees |-> {}]
  /\ ret' = FALSE
  /\ report' = "none"
  /\ UNCHANGED <<volume, seen, backup_folders, invoked, allResult, rsrc, rdst,
                 rtrace, relocVars, utilVars>>

\* if self.restore_apps_from_backup(backup_folder): success_count += 1
\* and the loop goes to the next backup folder.
ReturnToAll ==
  /\ rpc = "ret"
  /\ success_count' = success_count + (IF ret THEN 1 ELSE 0)
  /\ fi' = fi + 1
  /\ rpc' = "call"
  /\ apps_to_restore' = <<>>
  /\ bk' = [t \in RTrees |-> Absent]
  /\ ap' = [t \in RTrees |-> Absent]
  /\ installed' = {}
  /\ valid_apps' = <<>>
  /\ apps_to_process' = <<>>
  /\ ri' = 1
  /\ log' = [t \in RTrees |-> {}]
  /\ ret' = FALSE
  /\ report' = "none"
  /\ UNCHANGED <<volume, seen, backup_folders, invoked, allResult, rsrc, rdst,
                 rtrace, relocVars, utilVars>>

\* return success_count > 0
AllEnd ==
  /\ rpc = "call" /\ fi > Len(backup_folders)
  /\ allResult' = (success_count > 0)
  /\ rpc' = "allDone"
  /\ UNCHANGED <<volume, seen, backup_folders, fi, success_count, invoked,
                 restoreCallVars, relocVars, utilVars>>

InitRestore ==
  /\ volume \in Listings(RestoreNames, {TRUE}, MaxFolders)
  /\ seen = 0
  /\ backup_folders = <<>>
  /\ fi = 1
  /\ success_count = 0
  /\ invoked = <<>>
  /\ allResult = FALSE
  /\ rpc = "start"
  /\ NoRestoreCall
  /\ RelocateIdle
  /\ UtilIdle

NextRestore ==
  \/ FindAll
  \/ ConfirmAll
  \/ RestoreEnter
  \/ RestoreMissing
  \/ ConfirmRestore
  \/ PreProcess
  \/ PreDone
  \/ ProcessRaises
  \/ RemoveExisting
  \/ MoveBack
  \/ ManualCopyAnswer
  \/ Finish
  \/ CountRestored
  \/ ReturnToAll
  \/ AllEnd

SpecRestore == InitRestore /\ [][NextRestore]_vars

\* ================================================================ claims
Range(q) == { q[i] : i \in 1..Len(q) }

Succeeded(e) == e.ev \in {"moved", "committed"}

CopyMethods == {"copydelete", "rsync", "ditto"}

\* A step of the strategy chain: one more attempt is on record.
StrategyStep == pc \in Range(Methods) /\ Len(trace') = Len(trace) + 1

LastEv == trace[Len(trace)]

\* C1: the strategies are attempted in the order direct, copy-then-delete,
\* rsync, ditto: the i-th attempt of a call is always the i-th method (so no
\* method is repeated or attempted before an earlier one), every attempt
\* but the last has failed, the method about to run is the next in order,
\* and overall failure is reported only after all four were attempted.
C1_StrategyOrder ==
  /\ Len(trace) <= Len(Methods)
  /\ \A i \in 1..Len(trace) : trace[i].m = Methods[i]
  /\ \A i \in 1..(Len(trace) - 1) : ~Succeeded(trace[i])
  /\ pc \in Range(Methods) => Len(trace) < 4 /\ pc = Methods[Len(trace) + 1]
  /\ pc = "failed" => Len(trace) = 4 /\ ~Succeeded(trace[4])
  /\ pc = "moved" => Len(trace) >= 1 /\ Succeeded(LastEv)

\* C1 witness: direct and copy-then-delete failed, rsync failed, ditto ran.
C1_Witness ==
  /\ Len(trace) = 4
  /\ trace[3].m = "rsync" /\ trace[4].m = "ditto"
  /\ ~Succeeded(trace[1]) /\ ~Succeeded(trace[2])

\* C2: a copying strategy changes the source only when the copy it has just
\* made passes _verify_app_copy against the source as it was; a failed copy
\* or a failed verification leaves the source as it is.
C2_RemoveOnlyAfterVerify ==
  [][ (StrategyStep /\ pc \in CopyMethods) =>
        /\ src' # src =>
             /\ VerifyPure(src, dst')
             /\ trace'[Len(trace')].ev \in {"committed", "remove_failed"}
        /\ trace'[Len(trace')].ev
             \in {"copy_failed", "verify_failed", "verify_failed_left"}
             => src' = src ]_vars

\* C2 witness: copy-then-delete verified its copy and removed the source.
C2_Witness ==
  /\ pc = "moved"
  /\ LastEv = [m |-> "copydelete", ev |-> "committed"]
  /\ ~src.ex
  /\ dst = atCall.s

\* C3 (as claimed): whenever _move_app_robustly returns True for a valid
\* bundle, the source is gone and the destination exists under the intended
\* name and passes the integrity check; no tree is committed twice.
C3_CommittedIntegrity ==
  /\ (pc = "moved" /\ CheckAppIntegrity(atCall.s)) =>
       /\ ~src.ex
       /\ dst.ex
       /\ CheckAppIntegrity(dst)
  /\ \A t \in Trees : commits[t] <= 1

\* C8 (as claimed): when rsync or ditto has failed (non-zero exit or
\* timeout), no destination is present when the next strategy starts or the
\* call returns failure.
C8_ToolFailureCleansUp ==
  (Len(trace) >= 1 /\ LastEv.m \in {"rsync", "ditto"} /\ LastEv.ev = "copy_failed")
    => ~dst.ex

VerifyRejected(e) == e.ev \in {"verify_failed", "verify_failed_left"}

\* A copying strategy that raised hands over to the next block in order.
FallsThrough ==
  /\ pc = "copydelete" => pc' = "rsync"
  /\ pc = "rsync" => pc' = "ditto"
  /\ pc = "ditto" => pc' = "failed"

\* C9 (as claimed): when the copy completed but the verification returned
\* false, the destination is gone afterwards, the source is untouched,
\* nothing is committed and the chain falls through.
C9_VerifyFailureRemovesCopy ==
  [][ (StrategyStep /\ pc \in CopyMethods /\ VerifyRejected(trace'[Len(trace')])) =>
        /\ ~dst'.ex
        /\ src' = src
        /\ commits' = commits
        /\ FallsThrough ]_vars

\* C9 (amended): when the copy completed but the verification returned
\* false, the engine removes the destination best-effort: the destination is
\* gone unless that removal itself fails, in which case the error is ignored
\* and what is left is a remnant of what the destination held; the source
\* is untouched, nothing is committed and the chain falls through.
C9_VerifyFailureBestEffort ==
  [][ (StrategyStep /\ pc \in CopyMethods /\ VerifyRejected(trace'[Len(trace')])) =>
        /\ trace'[Len(trace')].ev = "verify_failed" => ~dst'.ex
        /\ trace'[Len(trace')].ev = "verify_failed_left" =>
             /\ dst'.ex
             /\ dst'.files \subseteq (src.files \cup dst.files)
        /\ src' = src
        /\ commits' = commits
        /\ FallsThrough ]_vars

\* C9 witness: copy-then-delete made its copy, the verification rejected it,
\* the copy is gone, the source is as it was and rsync is next.
C9_Witness ==
  /\ pc = "rsync"
  /\ LastEv = [m |-> "copydelete", ev |-> "verify_failed"]
  /\ ~dst.ex
  /\ src = atCall.s /\ src.ex

\* C10: a call entered for a tree whose source no longer exists while its
\* destination does leaves that destination exactly as it was, creates
\* nothing, and never returns True, so no second commit is reported.
C10_IdempotentOnSuccess ==
  (calls >= 1 /\ ~atCall.s.ex /\ atCall.d.ex) =>
    /\ dst = atCall.d
    /\ ~src.ex
    /\ pc # "moved"
    /\ \A i \in 1..Len(trace) : ~Succeeded(trace[i])
    /\ commits[cur] <= 1

\* C10 witness: the second call on a committed tree has run through all
\* four strategies.
C10_Witness ==
  /\ calls = 2 /\ commits[cur] = 1
  /\ ~atCall.s.ex /\ atCall.d.ex
  /\ pc = "failed"
  /\ dst = atCall.d

Answers == {"enter", "skip", "eof"}

AllFourFailed == Len(trace) = 4 /\ \A i \in 1..4 : ~Succeeded(trace[i])

\* C4: once all four strategies have failed for a tree, the very next thing
\* is the manual-move request, and then the operator's answer, both before
\* "Continue?" is asked and before the loop moves to a later tree; the
\* request is shown only for a tree whose four strategies all failed, never
\* for a tree that some strategy committed.
C4_ManualEscalation ==
  [][ /\ AllFourFailed =>
           /\ pc' = "manual" /\ manual'[cur] = "shown"
           /\ idx' = idx /\ asked' = asked
      /\ pc = "manual" =>
           /\ pc' = "confirm" /\ manual'[cur] \in Answers
           /\ idx' = idx /\ asked' = asked
      /\ \A t \in Trees :
           (manual'[t] = "shown" /\ manual[t] # "shown") =>
              t = cur /\ AllFourFailed /\ commits[t] = 0
      /\ \A t \in Trees : commits'[t] > 0 => manual'[t] = "none" ]_vars

\* C4 witness: all four strategies failed for the first tree, the request
\* was shown and answered, "Continue?" has not been asked yet and the next
\* tree has not been touched.
C4_Witness ==
  /\ pc = "confirm" /\ idx = 1 /\ Len(apps) = 2
  /\ manual[1] \in Answers
  /\ asked = {}
  /\ 2 \notin probed

\* C5 (as claimed): after manual escalation, a tree the operator
\* acknowledged and whose destination then exists counts as committed and is
\* not in the failed/skipped list; acknowledged without a destination, or
\* skipped, it is in the list.
C5_ManualOutcome ==
  \A t \in Trees :
    (pc \in {"confirm", "loop", "done"} /\ manual[t] \in Answers) =>
      /\ (manual[t] = "enter" /\ ackDst[t]) => t \notin Range(failed_apps)
      /\ (manual[t] = "enter" /\ ~ackDst[t]) => t \in Range(failed_apps)
      /\ manual[t] = "skip" => t \in Range(failed_apps)

\* C6 (as claimed): the loop never leaves a tree that is in failed_apps
\* without having asked "Continue?" after it.
C6_AskAfterEveryFailure ==
  [][ (InLoop /\ (idx' # idx \/ returned')) =>
        (cur \in Range(failed_apps') => cur \in asked') ]_vars

\* C6 (amended): the loop never leaves a tree that is in failed_apps because
\* its relocation failed without having asked "Continue?" after it; a
\* protected tree is put on the list and passed over without any question.
C6_AskAfterFailedMove ==
  [][ (InLoop /\ (idx' # idx \/ returned')) =>
        /\ (cur \in Range(failed_apps') /\ cur \notin protected) => cur \in asked'
        /\ cur \in protected => (cur \in Range(failed_apps') /\ cur \notin asked') ]_vars

\* C6 witness: the first tree failed to move, "Continue?" was asked and
\* answered yes, and the loop stands at the second tree.
C6_Witness ==
  /\ idx = 2 /\ Len(apps) = 2 /\ pc = "loop"
  /\ 1 \in Range(failed_apps) /\ 1 \notin protected
  /\ 1 \in asked

\* C7: when the caller answers no, move_apps_to_volume returns at once with
\* False and the list as it stood; nothing happens after the return; no
\* tree later in the batch has been probed, stripped, attempted, prompted
\* for or recorded; and no step ever changes whether the source or the
\* destination of a tree other than the current one exists, so what was
\* committed stays.
C7_DeclineAborts ==
  [][ /\ ~returned
      /\ (pc = "confirm" /\ pc' = "done") =>
           /\ returned' /\ ~success'
           /\ failed_apps' = failed_apps
           /\ UNCHANGED <<idx, src, dst, gone, placed, probed, stripped,
                          normalized, manual, commits>>
      /\ \A t \in Trees :
           (InLoop /\ t # cur) =>
              /\ (t \in gone') = (t \in gone)
              /\ (t \in placed') = (t \in placed)
      /\ \A t \in Trees :
           t > idx' =>
             /\ t \notin (probed' \cup stripped' \cup normalized' \cup asked')
             /\ manual'[t] = "none" /\ commits'[t] = 0
             /\ t \notin Range(failed_apps') ]_vars

\* C7 witness: the caller declined after the first of two trees; the second
\* has not been touched.
C7_Witness ==
  /\ returned /\ ~success /\ pc = "done"
  /\ idx = 1 /\ Len(apps) = 2
  /\ failed_apps = <<1>>
  /\ 2 \notin probed

\* ---------------------------------------------------------------- C11
\* The engine's own steps always complete: shutil.move, copytree and rmtree
\* return or raise, rsync and ditto run under timeout=300, and the code
\* between the blocks is straight-line.  The two waits for the operator
\* (input() and Confirm.ask) carry no such assumption.
EngineFairness ==
  /\ WF_vars(SkipProtected)
  /\ WF_vars(Probe)
  /\ WF_vars(Strip)
  /\ WF_vars(Direct)
  /\ WF_vars(CopyDelete)
  /\ WF_vars(MirrorSync)
  /\ WF_vars(AttrCopy)
  /\ WF_vars(MoveSucceeded)
  /\ WF_vars(MoveFailed)
  /\ WF_vars(LoopEnd)

SpecLive == Spec /\ EngineFairness

\* Position of a strategy in the chain, and of what follows the chain.
Rank(p) ==
  CASE p = "direct" -> 1
    [] p = "copydelete" -> 2
    [] p = "rsync" -> 3
    [] p = "ditto" -> 4
    [] OTHER -> 5

\* The engine is not running: it waits for the operator or has returned.
AtRest == pc \in {"manual", "confirm", "done"}

\* C11: every call of _move_app_robustly ends for the caller in a success
\* result or in the manual-move request; on the way the chain only moves
\* forward, never back to an earlier strategy; and the engine comes to rest
\* only where it waits for the operator or where the batch has returned.
C11_RelocateTerminates ==
  /\ (pc = "direct") ~> (pc \in {"moved", "manual"})
  /\ [][ (pc \in Range(Methods)) => (Rank(pc') > Rank(pc)) ]_vars
  /\ []<>AtRest

\* C11 witness: a call went through all four strategies and the engine now
\* waits in the manual-move request of that tree.
C11_Witness ==
  /\ pc = "manual" /\ manual[cur] = "shown"
  /\ calls = 1 /\ commits[cur] = 0
  /\ cur \in stripped

\* ---------------------------------------------------------------- C12
\* C12 (as claimed, for restore_apps_from_backup): the second loop is left
\* for the return only when no tree after the current one is still waiting
\* for its iteration; an error raised for one tree never leaves later trees
\* unprocessed.
C12_ErrorNeverStopsRestore ==
  (rpc = "ret" /\ apps_to_process # <<>>) => ri >= Len(apps_to_process)

\* ---------------------------------------------------------------- C13
\* A restore_apps_from_backup call has listed its trees and not returned to
\* its caller yet.
InRestoreCall == rpc \in {"confirm", "pre", "proc", "move", "manualq", "finish", "ret"}

Listed == Range(apps_to_restore)

\* The tree being handled by the second loop, if any.
BeingRestored(t) ==
  rpc \in {"move", "manualq", "finish"} /\ apps_to_process[ri] = t

\* C13: a tree of the backup that fails _check_app_integrity is never
\* offered, compared, asked about, queued or handled by the second loop, so
\* no overwrite question is put for it, its destination is never removed
\* and it is never moved; the trees that pass are all in valid_apps, in the
\* order they were listed, and are still offered.
C13_CorruptNeverRestored ==
  InRestoreCall =>
    /\ \A t \in Listed :
         ~CheckAppIntegrity(bk[t]) =>
           /\ t \notin Range(valid_apps)
           /\ t \notin Range(apps_to_process)
           /\ log[t] = {}
           /\ ~BeingRestored(t)
           /\ t \notin installed
    /\ \A t \in Listed : CheckAppIntegrity(bk[t]) => t \in Range(valid_apps)
    /\ \A i, j \in 1..Len(valid_apps) : i < j => valid_apps[i] < valid_apps[j]

\* C13 witness: of two trees in the backup the first has lost its
\* executable and the second was brought back.
C13_Witness ==
  /\ rpc = "ret"
  /\ Len(apps_to_restore) = 2
  /\ bk[1] = Bundle({"plist"}) /\ ap[1].ex
  /\ valid_apps = <<2>>
  /\ "brought" \in log[2]

\* ---------------------------------------------------------------- C14
\* C14: a tree whose destination exists and which _apps_are_identical finds
\* identical is only skipped: no overwrite question is put for it, it is
\* not queued, the second loop never handles it (so neither its destination
\* nor its backup copy is removed, copied or moved), and a call in which
\* every valid tree was skipped this way returns True.
C14_IdenticalSkipped ==
  InRestoreCall =>
    /\ \A t \in Listed :
         "identical" \in log[t] =>
           /\ ap[t].ex
           /\ log[t] = {"identical"}
           /\ t \notin Range(apps_to_process)
           /\ ~BeingRestored(t)
           /\ t \notin installed
    /\ (rpc = "ret" /\ valid_apps # <<>>
          /\ \A i \in 1..Len(valid_apps) : "identical" \in log[valid_apps[i]])
         => (ret /\ report = "nothing_to_do")

\* C14 witness: both trees of the backup were found identical to what is
\* installed and the call returned True without a second loop.
C14_Witness ==
  /\ rpc = "ret" /\ ret
  /\ valid_apps = <<1, 2>>
  /\ log = [t \in RTrees |-> {"identical"}]
  /\ apps_to_process = <<>>

\* ---------------------------------------------------------------- C15
\* The first loop handles one tree of valid_apps.
PreStep == rpc = "pre" /\ ri <= Len(valid_apps) /\ ri' = ri + 1

\* C15: _remove_app_safely runs on a destination, and shutil.move is aimed
\* at a destination that existed when the call began, only for a tree whose
\* overwrite the operator confirmed; a tree whose overwrite was declined is
\* not queued and never handled by the second loop, so its destination and
\* its backup copy stay as they were; and declining does not end the
\* first loop: it goes on with the next tree.
C15_OverwriteOnlyConfirmed ==
  [][ /\ \A t \in RTrees :
           ("rm" \in log'[t] /\ "rm" \notin log[t]) =>
              (t = rcur /\ "ow_yes" \in log[t])
      /\ (rpc = "move" /\ ap[rcur].ex) => "ow_yes" \in log[rcur]
      /\ \A t \in Listed :
           ("ow_asked" \in log'[t] /\ "ow_yes" \notin log'[t]) =>
              /\ log'[t] = {"ow_asked"}
              /\ t \notin Range(apps_to_process')
              /\ bk'[t] = bk[t] /\ ap'[t] = ap[t]
      /\ PreStep => (rpc' = "pre" /\ UNCHANGED <<bk, ap, installed>>) ]_vars

\* C15 witness: the operator declined the overwrite of the first tree and
\* confirmed that of the second, whose destination was then removed.
C15_Witness ==
  /\ rpc = "move"
  /\ log[1] = {"ow_asked"}
  /\ log[2] = {"ow_asked", "ow_yes", "rm"}
  /\ apps_to_process = <<2>>
  /\ ap[1].ex /\ bk[1].ex /\ ~rdst.ex

\* ---------------------------------------------------------------- C16
\* C16 (as claimed): when the operator is asked to copy a tree back by hand,
\* the four strategies of _move_app_robustly have been attempted for it, in
\* order, as move_apps_to_volume does before its manual-move request.
C16_RestoreUsesStrategyChain ==
  rpc = "manualq" => rtrace = Methods

\* ---------------------------------------------------------------- C17
\* Trees of apps_to_process that this call brought into /Applications:
\* moved by shutil.move, or copied by hand and confirmed.
Brought == { t \in Range(apps_to_process) : "brought" \in log[t] }

\* C17 (as claimed): after the second loop the call reports "all" exactly
\* when it brought every tree of apps_to_process into /Applications, "none"
\* (and returns False) exactly when it brought none, and "partial"
\* otherwise, returning True.
C17_ReportMatchesRestored ==
  (rpc = "ret" /\ report \in {"all", "partial", "none"}) =>
    /\ report = "all" <=> Brought = Range(apps_to_process)
    /\ report = "none" <=> Brought = {}
    /\ ret <=> report # "none"

\* ---------------------------------------------------------------- C18
\* backup_folders is in strictly descending name order.
Descending(q) == \A i, j \in 1..Len(q) : i < j => StrLess(q[j], q[i])

\* C18: restore_apps_from_backup is called on the discovered folders one
\* after the other in the order of backup_folders, which is newest first:
\* the calls made so far are always the first folders of that list, each
\* once, whatever the earlier calls returned; nothing is called before the
\* operator has confirmed; and the loop ends only when every folder has had
\* its call.
C18_RestoreAllVisitsEvery ==
  /\ Descending(backup_folders)
  /\ Len(invoked) <= Len(backup_folders)
  /\ invoked = SubSeq(backup_folders, 1, Len(invoked))
  /\ rpc \in {"start", "confirmAll"} => invoked = <<>>
  /\ rpc = "call" => Len(invoked) = fi - 1
  /\ InRestoreCall => Len(invoked) = fi
  /\ rpc = "allDone" => (invoked = <<>> /\ fi = 1) \/ invoked = backup_folders

\* C18 witness: two folders were found, the restore of the newer one
\* returned False, and the older one was restored all the same.
C18_Witness ==
  /\ rpc = "allDone"
  /\ backup_folders = <<NameNew, NameOld>>
  /\ invoked = <<NameNew, NameOld>>
  /\ success_count = 0
  /\ volume[1].name = NameOld

\* ---------------------------------------------------------------- C19
\* C19 (as claimed): a call of restore_apps_from_backup on an existing
\* backup folder adds to success_count only if every valid tree of that
\* backup is restored, that is, was brought into /Applications by the call
\* or found identical to what is installed.
C19_CountsFullyRestored ==
  [][ (rpc = "ret" /\ report # "fallback" /\ success_count' > success_count)
        => FullyRestored ]_vars

\* ---------------------------------------------------------------- C20
\* '0'..'9'
IsDigit(c) == c >= 48 /\ c <= 57

\* The naming convention <prefix>_<YYYYMMDD>_<HHMMSS> with prefix AppBackup.
MatchesConvention(name) ==
  /\ Len(name) = 25
  /\ StartsWith(name, BackupPrefix)
  /\ \A i \in 11..18 : IsDigit(name[i])
  /\ name[19] = 95
  /\ \A i \in 20..25 : IsDigit(name[i])

\* The number written by the digits name[a..b].
RECURSIVE DigitsValue(_, _, _)
DigitsValue(name, a, b) ==
  IF b < a THEN 0 ELSE 10 * DigitsValue(name, a, b - 1) + (name[b] - 48)

\* The timestamp embedded in x is later than the one embedded in y.
Newer(x, y) ==
  LET dx == DigitsValue(x, 11, 18)
      dy == DigitsValue(y, 11, 18)
  IN  dx > dy \/ (dx = dy /\ DigitsValue(x, 20, 25) > DigitsValue(y, 20, 25))

\* Names of the directories among the first k entries that satisfy P.
DirNames(k, P(_)) ==
  { volume[i].name : i \in { j \in 1..k : volume[j].dir /\ P(volume[j].name) } }

HasPrefix(name) == StartsWith(name, BackupPrefix)

\* C20 (as claimed): find_backup_folders, when it has seen every entry of
\* the volume, returns exactly the directories whose name matches the
\* naming convention, each once, in descending name order, newest timestamp
\* first.
C20_DiscoverExact ==
  (rpc = "listed" /\ seen = Len(volume)) =>
    /\ Range(backup_folders) = DirNames(Len(volume), MatchesConvention)
    /\ Len(backup_folders) = Cardinality(Range(backup_folders))
    /\ Descending(backup_folders)
    /\ \A i, j \in 1..Len(backup_folders) :
         i < j => Newer(backup_folders[i], backup_folders[j])

\* C20 (amended): find_backup_folders returns exactly the directories whose
\* name starts with "AppBackup_" among the entries it saw, which are all
\* entries of the volume unless the listing raised; each once, in descending
\* name order; and of two returned names that follow the naming convention
\* the one with the later timestamp comes first.
C20_DiscoverByPrefix ==
  rpc = "listed" =>
    /\ Range(backup_folders) = DirNames(seen, HasPrefix)
    /\ seen <= Len(volume)
    /\ Len(backup_folders) = Cardinality(Range(backup_folders))
    /\ Descending(backup_folders)
    /\ \A i, j \in 1..Len(backup_folders) :
         (i # j /\ MatchesConvention(backup_folders[i])
                /\ MatchesConvention(backup_folders[j]))
           => (i < j <=> Newer(backup_folders[i], backup_folders[j]))

\* C20 witness: the volume lists the oldest backup first, then one of the
\* same day as the newest, then the newest; all three are returned, newest
\* first.
C20_Witness ==
  /\ rpc = "listed"
  /\ seen = 3 /\ Len(volume) = 3
  /\ volume[1].name = NameOld /\ volume[2].name = NameMorning
  /\ backup_folders = <<NameNew, NameMorning, NameOld>>

\* ================================================ _wait_for_app_unlock
MaxWait == 6          \* largest max_wait the wait is started with

\* The helper functions below are evaluated on their own on inputs `args`.
Returned == result # <<>>

UtilRestIdle == RestoreIdle /\ RelocateIdle

\* What one run of `lsof <path>` (timeout=5) can do: exit 0 with output,
\* exit 0 without output, exit 1 with or without output, or raise
\* (TimeoutExpired, lsof missing).
LsofRuns == {"open", "silent", "none", "complaint", "raised"}

\* _check_app_in_use: returncode == 0 and stdout.strip(); False on exception.
CheckAppInUse(run) == run = "open"

\* Variant of WaitPoll that sleeps and polls again whatever lsof reported.
WaitPollIgnoresFree ==
  /\ args # <<>> /\ args.fn = "wait"
  /\ ~Returned
  /\ attempt < args.max_wait
  /\ \E run \in LsofRuns :
       /\ polls' = Append(polls, run)
       /\ attempt' = attempt + 1
       /\ result' = result
  /\ UNCHANGED <<args, relocVars, restoreVars>>

\* One iteration of `for attempt in range(max_wait)`: a poll, then either
\* `return True` or the progress line and time.sleep(1).
WaitPoll ==
  /\ args # <<>> /\ args.fn = "wait"
  /\ ~Returned
  /\ attempt < args.max_wait
  /\ \E run \in LsofRuns :
       /\ polls' = Append(polls, run)
       /\ IF ~CheckAppInUse(run)
            THEN result' = <<TRUE>> /\ attempt' = attempt
            ELSE result' = result /\ attempt' = attempt + 1
  /\ UNCHANGED <<args, relocVars, restoreVars>>

\* The loop ran out: "still in use after max_wait seconds", return False.
WaitExhausted ==
  /\ args # <<>> /\ args.fn = "wait"
  /\ ~Returned
  /\ attempt >= args.max_wait
  /\ result' = <<FALSE>>
  /\ UNCHANGED <<args, attempt, polls, relocVars, restoreVars>>

InitWait ==
  /\ args \in [fn : {"wait"}, max_wait : 0..MaxWait]
  /\ result = <<>>
  /\ attempt = 0
  /\ polls = <<>>
  /\ UtilRestIdle

NextWait == WaitPoll \/ WaitExhausted

SpecWait == InitWait /\ [][NextWait]_vars

\* Every lsof run ends (timeout=5) and every sleep lasts one second, so the
\* loop keeps stepping.
WaitFairness == WF_vars(WaitPoll) /\ WF_vars(WaitExhausted)

SpecWaitLive == SpecWait /\ WaitFairness

\* ---------------------------------------------------------------- C21
AllInUse(q) == \A i \in 1..Len(q) : CheckAppInUse(q[i])

\* C21: WaitUntilUnlocked always returns, after at most max_wait polls; it
\* returns true at the first poll that reports the tree free (every earlier
\* poll reported it in use) and polls no more; it returns false only after
\* exactly max_wait polls that all reported the tree in use.
C21_WaitTerminates ==
  /\ <>Returned
  /\ [](Len(polls) <= args.max_wait)
  /\ []((Returned /\ result[1]) =>
          /\ polls # <<>>
          /\ ~CheckAppInUse(polls[Len(polls)])
          /\ AllInUse(SubSeq(polls, 1, Len(polls) - 1)))
  /\ []((Returned /\ ~result[1]) =>
          /\ Len(polls) = args.max_wait
          /\ AllInUse(polls))
  /\ [][ Returned => (polls' = polls /\ result' = result) ]_vars

\* The tree was in use at two polls and free at the third.
C21_Witness ==
  /\ Returned /\ result[1]
  /\ Len(polls) = 3

\* ===================================================== _verify_app_copy
\* Every tree a path can hold: nothing, or a bundle directory with any of
\* the files and possibly a nested bundle.
TreeShapes ==
  {Absent} \cup
  { [ex |-> TRUE, files |-> F, nest |-> n, nfiles |-> NF] :
      F \in SUBSET Files, n \in BOOLEAN, NF \in SUBSET Files }

AllTrees == { t \in TreeShapes : ~t.nest => t.nfiles = {} }

\* _verify_app_copy(source, destination), evaluated on its own.
EvalVerify ==
  /\ args # <<>> /\ args.fn = "verify"
  /\ ~Returned
  /\ result' = <<VerifyCopy(args.s, args.d, args.err)>>
  /\ UNCHANGED <<args, attempt, polls, relocVars, restoreVars>>

InitVerify ==
  /\ args \in [fn : {"verify"}, s : AllTrees, d : AllTrees, err : BOOLEAN]
  /\ result = <<>>
  /\ attempt = 0
  /\ polls = <<>>
  /\ UtilRestIdle

NextVerify == EvalVerify

SpecVerify == InitVerify /\ [][NextVerify]_vars

\* ---------------------------------------------------------------- C22
\* |size(src) - size(dst)| <= 1% of size(src), in whole bytes.
WithinTolerance(s, d) ==
  LET diff == IF TreeSize(s) >= TreeSize(d) THEN TreeSize(s) - TreeSize(d)
              ELSE TreeSize(d) - TreeSize(s)
  IN 100 * diff <= TreeSize(s)

\* C22: VerifyCopy(src, dst) never raises; without an internal error it
\* returns true exactly when dst exists, src and dst both hold the manifest
\* and the total sizes differ by at most 1% of the size of src; it returns
\* false when dst is missing and whenever an internal error occurs.
C22_VerifyCopyIff ==
  (Returned /\ args.fn = "verify") =>
    /\ result[1] \in BOOLEAN
    /\ ~args.err =>
         (result[1] <=> /\ args.d.ex
                        /\ "plist" \in args.s.files
                        /\ "plist" \in args.d.files
                        /\ WithinTolerance(args.s, args.d))
    /\ ~args.d.ex => ~result[1]
    /\ args.err => ~result[1]

\* Accepted although the sizes differ: the difference is exactly 1%.
C22_Witness ==
  /\ Returned /\ args.fn = "verify"
  /\ result[1]
  /\ TreeSize(args.s) # TreeSize(args.d)
  /\ 100 * (TreeSize(args.d) - TreeSize(args.s)) = TreeSize(args.s)

\* ================================================= candidate listings
\* One entry of a directory that is scanned for applications:
\*   link     - the entry itself is a symbolic link (is_symlink())
\*   kind     - what the path resolves to: a directory, a file, or nothing
\*   suffix   - its name ends in ".app"
\*   small    - stat().st_size of the entry is below 1000
\*   contents - <entry>/Contents exists
\*   plist    - <entry>/Contents/Info.plist: missing, below 100 bytes, or more
\*   declares - the manifest parses and names a CFBundleExecutable
\*   exec     - Contents/MacOS/<that name> exists
\*   listed   - the name is in self.protected_apps
\*   recent   - st_mtime is after the cutoff
\*   err      - a stat() inside _is_symlink_or_alias raises
Entries ==
  { e \in [link : BOOLEAN, kind : {"dir", "file", "none"}, suffix : BOOLEAN,
           small : BOOLEAN, contents : BOOLEAN,
           plist : {"none", "tiny", "full"}, declares : BOOLEAN,
           exec : BOOLEAN, listed : BOOLEAN, recent : BOOLEAN, err : BOOLEAN] :
      /\ (e.kind = "none") => e.link
      /\ (e.kind # "dir") => ~e.contents
      /\ ~e.contents => (e.plist = "none" /\ ~e.exec)
      /\ (e.plist = "none") => ~e.declares }

\* _is_symlink_or_alias: a symlink, a small entry, no Contents, a missing or
\* small manifest; True as well when anything raises.
IsSymlinkOrAlias(e) ==
  IF e.link THEN TRUE
  ELSE IF e.err THEN TRUE
  ELSE IF e.small THEN TRUE
  ELSE IF ~e.contents THEN TRUE
  ELSE IF e.plist # "full" THEN TRUE
  ELSE FALSE

\* app_path.is_dir() and app_path.suffix == ".app" (is_dir follows links)
IsAppDir(e) == e.kind = "dir" /\ e.suffix

\* _check_app_integrity on a listed entry: the manifest exists, and the
\* executable exists if the manifest could be read and declares one.
CheckEntryIntegrity(e) ==
  IF e.kind = "none" THEN FALSE
  ELSE IF e.plist = "none" THEN FALSE
  ELSE IF e.declares THEN e.exec
  ELSE TRUE

\* get_applications: every *.app directory whose name is not protected.
GetApplications ==
  /\ args # <<>> /\ args.fn = "get_applications"
  /\ ~Returned
  /\ result' = <<IsAppDir(args.e) /\ ~args.e.listed>>
  /\ UNCHANGED <<args, attempt, polls, relocVars, restoreVars>>

\* restore_apps_from_backup: apps_to_restore filtered by the integrity check.
RestoreCandidates ==
  /\ args # <<>> /\ args.fn = "valid_apps"
  /\ ~Returned
  /\ result' = <<IsAppDir(args.e) /\ CheckEntryIntegrity(args.e)>>
  /\ UNCHANGED <<args, attempt, polls, relocVars, restoreVars>>

\* find_recently_modified_apps: recent *.app directories that are not a
\* symlink or alias.
FindRecentlyModifiedApps ==
  /\ args # <<>> /\ args.fn = "find_recently_modified_apps"
  /\ ~Returned
  /\ result' = <<IsAppDir(args.e) /\ args.e.recent /\ ~IsSymlinkOrAlias(args.e)>>
  /\ UNCHANGED <<args, attempt, polls, relocVars, restoreVars>>

InitCandidates ==
  /\ args \in [fn : {"get_applications", "valid_apps",
                     "find_recently_modified_apps"},
               e : Entries]
  /\ result = <<>>
  /\ attempt = 0
  /\ polls = <<>>
  /\ UtilRestIdle

NextCandidates == GetApplications \/ RestoreCandidates \/ FindRecentlyModifiedApps

SpecCandidates == InitCandidates /\ [][NextCandidates]_vars

\* ---------------------------------------------------------------- C23
\* C23: an entry for which IsAliasOrSymlink is true is in none of the three
\* candidate lists (relocation, restore, recently modified).
C23_AliasNeverCandidate ==
  (Returned /\ args.fn \in {"get_applications", "valid_apps",
                            "find_recently_modified_apps"}
            /\ IsSymlinkOrAlias(args.e))
    => ~result[1]

\* ================================================= _apps_are_identical
\* What _apps_are_identical looks at in a bundle path:
\*   ex     - the path exists
\*   denied - stat() of the path fails with EACCES (exists() raises too)
\*   dsize  - st_size of the bundle directory itself
\*   plist  - Contents/Info.plist: "none", or the bytes it holds
\*   locked - the manifest exists but cannot be opened for reading
Looks ==
  { t \in [ex : BOOLEAN, denied : BOOLEAN, dsize : {96, 128},
           plist : {"none", "bytesA", "bytesB"}, locked : BOOLEAN] :
      /\ ~t.ex => (t.plist = "none" /\ t.dsize = 96 /\ ~t.denied)
      /\ (t.plist = "none") => ~t.locked }

\* Variant of AppsAreIdentical that requires the manifest of the destination
\* only.
AppsAreIdenticalDestOnly(s, d) ==
  IF d.denied THEN FALSE
  ELSE IF ~d.ex THEN FALSE
  ELSE IF s.denied \/ ~s.ex THEN FALSE
  ELSE IF s.dsize # d.dsize THEN FALSE
  ELSE IF d.plist = "none" THEN FALSE
  ELSE IF s.plist = "none" THEN TRUE
  ELSE IF s.locked \/ d.locked THEN FALSE
  ELSE s.plist = d.plist

\* _apps_are_identical(source_path, dest_path), line by line; every raise
\* ends in `except Exception: return False`.
AppsAreIdentical(s, d) ==
  IF d.denied THEN FALSE                    \* dest_path.exists() raises
  ELSE IF ~d.ex THEN FALSE                  \* not dest_path.exists()
  ELSE IF s.denied \/ ~s.ex THEN FALSE      \* source_path.stat() raises
  ELSE IF s.dsize # d.dsize THEN FALSE      \* st_size differs
  ELSE IF ~(s.plist # "none" /\ d.plist # "none") THEN FALSE
  ELSE IF s.locked \/ d.locked THEN FALSE   \* open(...) raises
  ELSE s.plist = d.plist                    \* f1.read() == f2.read()

\* The comparison made in both directions on the same pair of paths.
EvalIdentical ==
  /\ args # <<>> /\ args.fn = "identical"
  /\ ~Returned
  /\ result' = <<AppsAreIdentical(args.a, args.b),
                 AppsAreIdentical(args.b, args.a)>>
  /\ UNCHANGED <<args, attempt, polls, relocVars, restoreVars>>

InitIdentical ==
  /\ args \in [fn : {"identical"}, a : Looks, b : Looks]
  /\ result = <<>>
  /\ attempt = 0
  /\ polls = <<>>
  /\ UtilRestIdle

NextIdentical == EvalIdentical

SpecIdentical == InitIdentical /\ [][NextIdentical]_vars

\* ---------------------------------------------------------------- C24
\* C24: AreIdentical is symmetric: for every pair of trees, existing or
\* missing, with or without manifest, of equal or different size and manifest
\* content, AreIdentical(a, b) = AreIdentical(b, a).
C24_IdenticalSymmetric ==
  (Returned /\ args.fn = "identical") => result[1] = result[2]

\* One of the two exists with a manifest and the other is missing: the
\* answer is false in both directions.
C24_Witness ==
  /\ Returned /\ args.fn = "identical"
  /\ args.a.ex /\ args.a.plist # "none" /\ ~args.b.ex
  /\ ~result[1] /\ ~result[2]

\* ---------------------------------------------------------------- C25
\* The engine is inside the handling of the current tree, past Stripping.
PastStrip == pc \in Range(Methods) \cup {"moved", "failed", "manual"}

\* C25: whatever IsInUse, HasRestrictedFlag, StripExtendedAttributes and
\* NormalizePermissions report for a tree that is not excluded, Probing is
\* followed by Stripping and Stripping by the start of the strategy chain at
\* Direct with nothing attempted yet; no strategy runs on a tree that has not
\* been probed and stripped.
C25_PrepNeverBlocks ==
  /\ [][ (pc = "loop" /\ InLoop /\ cur \notin protected)
           => (pc' = "strip" /\ cur \in probed' /\ cur \notin stripped') ]_vars
  /\ [][ (pc = "strip")
           => (/\ pc' = "direct" /\ trace' = <<>> /\ calls' = 1
               /\ cur \in stripped' /\ idx' = idx
               /\ failed_apps' = failed_apps) ]_vars
  /\ [](PastStrip => (cur \in probed /\ cur \in stripped))
  /\ []((trace # <<>>) => (trace[1].m = "direct"))

\* In use, restricted, xattr and chmod both failed: the chain starts.
C25_Witness ==
  /\ pc = "direct"
  /\ trace = <<>>
  /\ prep = <<TRUE, TRUE, FALSE, FALSE>>

\* ---------------------------------------------------------------- C26
\* Everything the source held when Relocate was entered is at path t, either
\* directly or in the bundle nested in it.
HoldsAll(t) ==
  /\ t.ex
  /\ \/ atCall.s.files \subseteq t.files
     \/ (t.nest /\ atCall.s.files \subseteq t.nfiles)

\* C26: in every state of a relocation, from the call of Relocate to the end
\* of the tree's iteration, a complete copy of what the source held at the
\* call exists at the source or at the destination.
C26_NoDataLoss ==
  (atCall # NoCall /\ atCall.s.ex) => (HoldsAll(src) \/ HoldsAll(dst))

\* ====================== move_apps_to_volume: the prompt itself fails
\* Confirm.ask("Continue?") raises inside the `try` (EOFError when the
\* operator types Ctrl-D at the prompt): control goes to the handler
\* `except (PermissionError, OSError, Exception)`.
ConfirmRaises ==
  /\ pc = "confirm"
  /\ asked' = asked \cup {cur}
  /\ pc' = "except"
  /\ UNCHANGED <<idx, failed_apps, manual, ackDst, returned, success, fsVars,
                 batchVars, prep, callVars, prepVars>>
  /\ UNCHANGED <<restoreVars, utilVars>>

\* The handler: failed_apps.append(app), the manual-move instructions
\* (input() with EOF and Ctrl-C caught), then Confirm.ask("Continue?") once
\* more, this time outside any `try`: yes goes on with the next app, no
\* returns (False, failed_apps), a raise leaves move_apps_to_volume without
\* a return value.
ExceptHandler ==
  /\ pc = "except"
  /\ failed_apps' = Append(failed_apps, cur)
  /\ \E resp \in {"enter", "skip", "eof"} :
       manual' = [manual EXCEPT ![cur] = resp]
  /\ ackDst' = [ackDst EXCEPT ![cur] = dst.ex]
  /\ \E ans \in {"yes", "no", "raises"} :
       CASE ans = "yes" ->
              /\ idx' = idx + 1
              /\ pc' = "loop"
              /\ EndIteration
              /\ UNCHANGED <<returned, success>>
         [] ans = "no" ->
              /\ returned' = TRUE
              /\ success' = FALSE
              /\ pc' = "done"
              /\ UNCHANGED <<idx, fsVars>>
         [] ans = "raises" ->
              /\ pc' = "raised"
              /\ UNCHANGED <<idx, fsVars, returned, success>>
  /\ UNCHANGED <<asked, batchVars, prep, callVars, prepVars>>
  /\ UNCHANGED <<restoreVars, utilVars>>

NextPrompts == Next \/ ConfirmRaises \/ ExceptHandler

SpecPrompts == Init /\ [][NextPrompts]_vars

\* ---------------------------------------------------------------- C27
\* The batch is <<1, ..., n>>: a list of its trees in batch order, each at
\* most once, is a strictly increasing list.
InBatchOrderOnce(q) ==
  /\ \A i \in 1..Len(q) : q[i] \in Range(apps)
  /\ \A i, j \in 1..Len(q) : i < j => q[i] < q[j]

\* C27: whenever RelocateBatch has returned, allSucceeded is true exactly
\* when the failed/skipped list is empty; allSucceeded implies that every
\* tree of the batch went through the strategy chain and was committed; and
\* the failed/skipped list holds trees of the batch only, each once, in batch
\* order.
C27_BatchContract ==
  returned =>
    /\ success <=> (failed_apps = <<>>)
    /\ success => \A t \in Range(apps) : t \in stripped /\ commits[t] >= 1
    /\ InBatchOrderOnce(failed_apps)

\* ---------------------------------------------------------------- C28
\* Nothing has been done to tree t or to its paths.
Untouched(t) ==
  /\ t \notin probed \cup stripped \cup normalized
  /\ t \notin gone \cup placed
  /\ commits[t] = 0
  /\ manual[t] = "none"
  /\ t \notin asked

\* C28: a tree whose name is in the protected set is never probed, stripped,
\* handed to a strategy or removed; when the loop reaches it the only effect
\* is that it is appended to the failed/skipped list and the loop goes on
\* with the next tree.
C28_ProtectedUntouched ==
  /\ [](\A t \in protected : Untouched(t))
  /\ []((InLoop /\ cur \in protected) =>
          (pc = "loop" /\ src = Absent /\ dst = Absent /\ trace = <<>>))
  /\ [][ (pc = "loop" /\ InLoop /\ cur \in protected) =>
           (/\ failed_apps' = Append(failed_apps, cur)
            /\ idx' = idx + 1
            /\ pc' = "loop"
            /\ ~returned'
            /\ UNCHANGED <<fsVars, callVars, prepVars, promptVars>>) ]_vars
  /\ [](\A t \in protected : (t < idx) => (t \in Range(failed_apps)))

\* The first tree was protected and skipped, and the second is under way.
C28_Witness ==
  /\ Len(apps) = 2
  /\ 1 \in protected
  /\ failed_apps = <<1>>
  /\ pc = "direct" /\ cur = 2

\* ---------------------------------------------------------------- C29
\* A step of the restore of the current tree that takes its backup copy, or
\* part of it, out of the backup folder: the move, or the shutil.rmtree
\* that follows the operator's Yes.
BackupCopyTaken ==
  \/ rpc = "move" /\ rsrc.ex /\ rsrc' # rsrc
  \/ rpc = "finish" /\ "bk_rm" \in log'[rcur]

\* C29: a step of Restore takes the backup copy of a tree away only if the
\* tree then exists at its destination and the operator has confirmed the
\* removal of the backup copy of that tree; and when the attempt to bring a
\* tree back ends with no tree at the destination, the backup copy is as it
\* was.
C29_BackupRemovedOnlyConfirmed ==
  /\ [][ BackupCopyTaken =>
           (/\ IF rpc = "move" THEN rdst'.ex ELSE rdst.ex
            /\ "bk_rm" \in log'[rcur]) ]_vars
  /\ [][ (rpc = "move" /\ ~rdst'.ex) => (rsrc' = bk[rcur]) ]_vars

\* ---------------------------------------------------------------- C30
\* C30: when Restore returns after its loop, every tree that was in the
\* primary directory before the call, whose overwrite the operator
\* confirmed and whose restore did not succeed (the move failed and no
\* manual copy was completed), is still present at its destination.
C30_OverwriteKeepsTree ==
  (rpc = "ret" /\ report \in {"all", "partial", "none"}) =>
    \A t \in Range(apps_to_process) :
      (ap[t].ex /\ "ow_yes" \in log[t] /\ "brought" \notin log[t])
        => t \in installed

====
